---------------------------- MODULE Spec2Model ----------------------------
(***************************************************************************)
(* Sample-by-sample audio generation of the sound-programming examples:    *)
(* the one-shot envelope (ch2-sine-wave), the step-sequenced envelope and  *)
(* Track (ch3-melody, ch5-biquad-filter, ch6-polyblep), the biquad         *)
(* low-pass filter (ch5-biquad-filter), the Karplus-Strong string          *)
(* (ch6-karplus), the Take/Chain/Silence pipelines and the completion      *)
(* channel between the audio callback and the control thread.              *)
(*                                                                         *)
(* f64 samples are modelled as exact rationals <<n, d>> in lowest terms    *)
(* with d > 0.  An Option<f64> is None (<<>>) or Some(v) (<<v>>).          *)
(***************************************************************************)
EXTENDS Integers, Sequences, FiniteSets, TLC

VARIABLES
    env,        \* ch2 Env (one-shot): fields of the struct, last return, calls made
    stepper,    \* step-sequenced Env and Track with the authored sequences
    pipe,       \* an example's `frames` pipeline and what it has returned
    run,        \* control thread, callback thread, channel and output buffer
    lpf,        \* biquad low-pass filter, both state representations
    ks,         \* KarplusStrong
    saw,        \* PolyBlepSaw and the Phase it owns
    melody      \* ch3-melody's two tracks and envelope inside one pipeline

vars == <<env, stepper, pipe, run, lpf, ks, saw, melody>>

(***************************************************************************)
(* Exact rationals standing for f64 values.                                *)
(***************************************************************************)
Abs(x) == IF x < 0 THEN -x ELSE x

\* Euclid's algorithm, as a function so that its arguments are values
GcdOf[a \in Nat, b \in Nat] == IF b = 0 THEN a ELSE GcdOf[b, a % b]

Gcd(a, b) == GcdOf[a, b]

\* n as f64 / d as f64, d # 0
Frac(n, d) ==
    LET g == Gcd(Abs(n), Abs(d))
        s == IF d < 0 THEN -1 ELSE 1
    IN  <<(s * n) \div g, (s * d) \div g>>

None == <<>>

Some(v) == <<v>>

Zero == <<0, 1>>

One == <<1, 1>>

RMul(a, b) ==
    LET g1 == Gcd(Abs(a[1]), b[2])
        g2 == Gcd(Abs(b[1]), a[2])
    IN  Frac((a[1] \div g1) * (b[1] \div g2), (a[2] \div g2) * (b[2] \div g1))

RAdd(a, b) ==
    LET g == Gcd(a[2], b[2])
    IN  Frac(a[1] * (b[2] \div g) + b[1] * (a[2] \div g), (a[2] \div g) * b[2])

RNeg(a) == <<-a[1], a[2]>>

RSub(a, b) == RAdd(a, RNeg(b))

RDiv(a, b) == RMul(a, IF b[1] < 0 THEN <<-b[2], -b[1]>> ELSE <<b[2], b[1]>>)

(***************************************************************************)
(* ch2-sine-wave: the one-shot envelope.                                   *)
(***************************************************************************)
ATTACK == 1000

RELEASE == 1000

\* the sample rate of the reference run (1 s @ 48 kHz)
RefRate == 48000

\* bounds of the small envelopes explored beside the reference one
MaxTotal == 5

MaxAttack == 4

\* calls made after the envelope has ended
MaxExtraCalls == 3

EnvNew(total_frames, attack_frames, release_frames) ==
    [cur_frame |-> 0, total_frames |-> total_frames,
     attack_frames |-> attack_frames, release_frames |-> release_frames]

\* the attack test placed before the release test
EnvShapeAttackFirst(cur_frame, total_frames, attack_frames, release_frames) ==
    IF cur_frame <= attack_frames
    THEN Frac(cur_frame, attack_frames)
    ELSE IF cur_frame > total_frames - release_frames
         THEN Frac(total_frames - cur_frame, release_frames)
         ELSE One

\* the release / attack / sustain tests of Env::next, in the code's order
EnvShape(cur_frame, total_frames, attack_frames, release_frames) ==
    IF cur_frame > total_frames - release_frames
    THEN Frac(total_frames - cur_frame, release_frames)
    ELSE IF cur_frame <= attack_frames
         THEN Frac(cur_frame, attack_frames)
         ELSE One

\* an envelope that compares with >= and so ends one frame early
EnvEndedEarly(cur_frame, total_frames) == cur_frame >= total_frames

\* an envelope that compares against total_frames + 1 and so ends one
\* frame late
EnvEndedLate(cur_frame, total_frames) == cur_frame > total_frames + 1

\* "already ended"
EnvEnded(cur_frame, total_frames) == cur_frame > total_frames

\* an Env::next whose counter stops once the envelope has ended
EnvNextSaturating(e) ==
    LET cur == IF EnvEnded(e.cur_frame, e.total_frames) THEN e.cur_frame
               ELSE e.cur_frame + 1
        e2  == [e EXCEPT !.cur_frame = cur]
    IN  IF EnvEnded(cur, e.total_frames)
        THEN [self |-> e2, ret |-> None]
        ELSE [self |-> e2,
              ret  |-> Some(EnvShape(cur, e.total_frames, e.attack_frames,
                                     e.release_frames))]

\* Env::next of ch2: the struct after the call and the Option returned
EnvNext(e) ==
    LET cur == e.cur_frame + 1
        e2  == [e EXCEPT !.cur_frame = cur]
    IN  IF EnvEnded(cur, e.total_frames)
        THEN [self |-> e2, ret |-> None]
        ELSE [self |-> e2,
              ret  |-> Some(EnvShape(cur, e.total_frames, e.attack_frames,
                                     e.release_frames))]

Idle == [idle |-> TRUE]

EnvParams ==
    {<<t, a, r>> \in (1..MaxTotal) \X (1..MaxAttack) \X (1..MaxTotal) : r <= t}
        \cup {<<RefRate, ATTACK, RELEASE>>}

InitEnv ==
    /\ \E p \in EnvParams :
          env = [self |-> EnvNew(p[1], p[2], p[3]), ret |-> None, calls |-> 0]
    /\ stepper = Idle /\ pipe = Idle /\ run = Idle /\ lpf = Idle /\ ks = Idle /\ saw = Idle /\ melody = Idle

EnvCall ==
    /\ env.calls < env.self.total_frames + MaxExtraCalls
    /\ LET r == EnvNext(env.self)
       IN  env' = [self |-> r.self, ret |-> r.ret, calls |-> env.calls + 1]
    /\ UNCHANGED <<stepper, pipe, run, lpf, ks, saw, melody>>

NextEnv == EnvCall

SpecEnv == InitEnv /\ [][NextEnv]_vars

(***************************************************************************)
(* C1: for positive parameters with release_frames <= total_frames the     *)
(* n-th call of the one-shot Env::next (n = 1..total_frames) returns       *)
(* (total_frames - n)/release_frames when n > total_frames -               *)
(* release_frames, otherwise n/attack_frames when n <= attack_frames,      *)
(* otherwise 1, the release test winning where both apply; for             *)
(* (48000, 1000, 1000) the calls 1, 1000, 47001 and 48000 return 1/1000,   *)
(* 1, 999/1000 and 0.                                                      *)
(***************************************************************************)
C1_OneShotContour ==
    LET n == env.calls
        t == env.self.total_frames
        a == env.self.attack_frames
        r == env.self.release_frames
    IN  /\ (n >= 1 /\ n <= t) =>
              /\ env.ret # None
              /\ LET v == env.ret[1]
                 IN  /\ n > t - r => v[1] * r = (t - n) * v[2]
                     /\ (n <= t - r /\ n <= a) => v[1] * a = n * v[2]
                     /\ (n <= t - r /\ n > a) => v = <<1, 1>>
        /\ (t = 48000 /\ a = 1000 /\ r = 1000) =>
              /\ n = 1 => env.ret = Some(<<1, 1000>>)
              /\ n = 1000 => env.ret = Some(<<1, 1>>)
              /\ n = 47001 => env.ret = Some(<<999, 1000>>)
              /\ n = 48000 => env.ret = Some(<<0, 1>>)

\* the reference envelope in its release ramp
C1_Witness ==
    /\ env.self.total_frames = 48000 /\ env.self.attack_frames = 1000
    /\ env.self.release_frames = 1000
    /\ env.calls = 47001 /\ env.ret = Some(<<999, 1000>>)

(***************************************************************************)
(* C2: the one-shot envelope returns a value on exactly its first          *)
(* total_frames calls of next and None on every later call.                *)
(***************************************************************************)
C2_FiniteLength ==
    env.calls >= 1 => ((env.ret # None) <=> (env.calls <= env.self.total_frames))

\* several calls after the end, still None
C2_Witness ==
    /\ env.calls = env.self.total_frames + MaxExtraCalls
    /\ env.calls > env.self.total_frames + 1
    /\ env.ret = None

(***************************************************************************)
(* ch3-melody, ch5-biquad-filter, ch6-polyblep: the step-sequenced Env,    *)
(* and the Track of ch3-melody.  A Vec is a sequence whose tail is its     *)
(* last element.                                                           *)
(***************************************************************************)
\* longest authored sequence explored
MaxSeqLen == 3

\* longest step explored
MaxStep == 3

\* steps run after the authored sequence is used up
MaxExtraSteps == 2

\* frequencies of TRACK1 in 1/100 Hz, and a rest
Notes == {0, 44000, 49388}

\* a pop that takes the first element instead of the last
PopFront(seq) ==
    IF seq = <<>>
    THEN [rest |-> seq, val |-> None]
    ELSE [rest |-> Tail(seq), val |-> Some(Head(seq))]

\* Vec::pop
Pop(seq) ==
    IF seq = <<>>
    THEN [rest |-> seq, val |-> None]
    ELSE [rest |-> SubSeq(seq, 1, Len(seq) - 1), val |-> Some(seq[Len(seq)])]

\* Option::unwrap_or
UnwrapOr(opt, default) == IF opt = None THEN default ELSE opt[1]

\* an Env::new of ch3-melody that pops its first note at construction,
\* as the later chapters' constructors do
Env3NewPopping(seq, step_length, attack_frames, release_frames) ==
    LET p == Pop(seq)
    IN  [self   |-> [seq |-> p.rest, cur_frame |-> 0,
                     note_on |-> UnwrapOr(p.val, FALSE),
                     step_length |-> step_length, attack_frames |-> attack_frames,
                     release_frames |-> release_frames],
         popped |-> <<p.val>>]

\* Env::new of ch3-melody: the sequence is kept whole, the note starts off
Env3New(seq, step_length, attack_frames, release_frames) ==
    [self   |-> [seq |-> seq, cur_frame |-> 0, note_on |-> FALSE,
                 step_length |-> step_length, attack_frames |-> attack_frames,
                 release_frames |-> release_frames],
     popped |-> <<>>]

\* Env::new of ch5-biquad-filter: the first note is popped at construction
Env5New(seq, step_length, attack_frames, release_frames) ==
    LET p == Pop(seq)
    IN  [self   |-> [seq |-> p.rest, cur_frame |-> 0,
                     note_on |-> UnwrapOr(p.val, FALSE),
                     step_length |-> step_length, attack_frames |-> attack_frames,
                     release_frames |-> release_frames],
         popped |-> <<p.val>>]

\* Env::new of ch6-polyblep
Env6New(seq, step_length, attack_frames, release_frames) ==
    LET p == Pop(seq)
    IN  [self   |-> [seq |-> p.rest, cur_frame |-> 0,
                     note_on |-> UnwrapOr(p.val, FALSE),
                     step_length |-> step_length, attack_frames |-> attack_frames,
                     release_frames |-> release_frames],
         popped |-> <<p.val>>]

\* an envelope that forgets to test note_on
StepEnvOutIgnoringNote(note_on, cur_frame, step_length, attack_frames, release_frames) ==
    EnvShape(cur_frame, step_length, attack_frames, release_frames)

\* the value returned once the step is settled: 0.0 when the note is off,
\* else release / attack / sustain relative to step_length
StepEnvOut(note_on, cur_frame, step_length, attack_frames, release_frames) ==
    IF ~note_on
    THEN Zero
    ELSE IF cur_frame > step_length - release_frames
         THEN Frac(step_length - cur_frame, release_frames)
         ELSE IF cur_frame <= attack_frames
              THEN Frac(cur_frame, attack_frames)
              ELSE One

\* Env::next of ch3-melody: the struct after the call, the f64 returned and
\* the results of the pops the call made
Env3Next(e) ==
    LET cur1 == e.cur_frame + 1
        wrap == cur1 > e.step_length
        p    == Pop(e.seq)
        cur  == IF wrap THEN cur1 - e.step_length ELSE cur1
        on   == IF wrap THEN UnwrapOr(p.val, FALSE) ELSE e.note_on
    IN  [self   |-> [e EXCEPT !.cur_frame = cur, !.note_on = on,
                              !.seq = IF wrap THEN p.rest ELSE e.seq],
         ret    |-> StepEnvOut(on, cur, e.step_length, e.attack_frames,
                               e.release_frames),
         popped |-> IF wrap THEN <<p.val>> ELSE <<>>]

\* Env::next of ch5-biquad-filter (the same text as ch3-melody's)
Env5Next(e) == Env3Next(e)

\* Env::next of ch6-polyblep (the same text as ch3-melody's)
Env6Next(e) == Env3Next(e)

TrackNew(seq, step_length) ==
    [self   |-> [seq |-> seq, step_length |-> step_length, cur_frame |-> 0,
                 note |-> 0],
     popped |-> <<>>]

\* a Track::next that wraps one frame early (>= for >)
TrackNextWrapEarly(t) ==
    LET cur1 == t.cur_frame + 1
        wrap == cur1 >= t.step_length
        p    == Pop(t.seq)
        cur  == IF wrap THEN cur1 - t.step_length ELSE cur1
        note == IF wrap THEN UnwrapOr(p.val, 0) ELSE t.note
    IN  [self   |-> [t EXCEPT !.cur_frame = cur, !.note = note,
                              !.seq = IF wrap THEN p.rest ELSE t.seq],
         ret    |-> note,
         popped |-> IF wrap THEN <<p.val>> ELSE <<>>]

\* Track::next
TrackNext(t) ==
    LET cur1 == t.cur_frame + 1
        wrap == cur1 > t.step_length
        p    == Pop(t.seq)
        cur  == IF wrap THEN cur1 - t.step_length ELSE cur1
        note == IF wrap THEN UnwrapOr(p.val, 0) ELSE t.note
    IN  [self   |-> [t EXCEPT !.cur_frame = cur, !.note = note,
                              !.seq = IF wrap THEN p.rest ELSE t.seq],
         ret    |-> note,
         popped |-> IF wrap THEN <<p.val>> ELSE <<>>]

SeqsOver(S, n) == UNION {[1..k -> S] : k \in 0..n}

\* the values among the pops' results, in order
Values(popped) == IF popped = <<>> \/ popped[1] = None THEN <<>> ELSE <<popped[1][1]>>

Started(variant, authored, made) ==
    [variant |-> variant, authored |-> authored, self |-> made.self, ret |-> None,
     calls |-> 0, pops |-> 0, consumed |-> Values(made.popped),
     exhausted |-> (made.popped # <<>> /\ made.popped[1] = None)]

InitStepper ==
    /\ \/ \E seq \in SeqsOver(BOOLEAN, MaxSeqLen), sl \in 1..MaxStep, a \in 1..MaxAttack :
          \E r \in 1..sl :
             \/ stepper = Started("ch3", seq, Env3New(seq, sl, a, r))
             \/ stepper = Started("ch5", seq, Env5New(seq, sl, a, r))
             \/ stepper = Started("ch6", seq, Env6New(seq, sl, a, r))
       \/ \E seq \in SeqsOver(Notes, MaxSeqLen), sl \in 1..MaxStep :
             stepper = Started("track", seq, TrackNew(seq, sl))
    /\ env = Idle /\ pipe = Idle /\ run = Idle /\ lpf = Idle /\ ks = Idle /\ saw = Idle /\ melody = Idle

Stepped(r) ==
    [stepper EXCEPT !.self = r.self, !.ret = Some(r.ret), !.calls = @ + 1,
                    !.pops = @ + Len(r.popped),
                    !.consumed = @ \o Values(r.popped),
                    !.exhausted = @ \/ (r.popped # <<>> /\ r.popped[1] = None)]

MoreSteps ==
    stepper.calls < (Len(stepper.authored) + MaxExtraSteps) * stepper.self.step_length

Env3Call ==
    /\ stepper.variant = "ch3" /\ MoreSteps
    /\ stepper' = Stepped(Env3Next(stepper.self))
    /\ UNCHANGED <<env, pipe, run, lpf, ks, saw, melody>>

Env5Call ==
    /\ stepper.variant = "ch5" /\ MoreSteps
    /\ stepper' = Stepped(Env5Next(stepper.self))
    /\ UNCHANGED <<env, pipe, run, lpf, ks, saw, melody>>

Env6Call ==
    /\ stepper.variant = "ch6" /\ MoreSteps
    /\ stepper' = Stepped(Env6Next(stepper.self))
    /\ UNCHANGED <<env, pipe, run, lpf, ks, saw, melody>>

TrackCall ==
    /\ stepper.variant = "track" /\ MoreSteps
    /\ stepper' = Stepped(TrackNext(stepper.self))
    /\ UNCHANGED <<env, pipe, run, lpf, ks, saw, melody>>

NextStepper == Env3Call \/ Env5Call \/ Env6Call \/ TrackCall

SpecStepper == InitStepper /\ [][NextStepper]_vars

IsEnv == stepper.variant \in {"ch3", "ch5", "ch6"}

AllOn == \A i \in 1..Len(stepper.authored) : stepper.authored[i] = TRUE

AllOff == \A i \in 1..Len(stepper.authored) : stepper.authored[i] = FALSE

\* the one-shot value of (step_length, attack_frames, release_frames) at the
\* offset of the latest call within its step
ContourAtOffset ==
    EnvShape(((stepper.calls - 1) % stepper.self.step_length) + 1,
             stepper.self.step_length, stepper.self.attack_frames,
             stepper.self.release_frames)

InFirstKSteps ==
    /\ stepper.calls >= 1
    /\ stepper.calls <= Len(stepper.authored) * stepper.self.step_length

(***************************************************************************)
(* C3: for an all-on sequence of k entries, every frame of the first k     *)
(* steps counted from construction returns the one-shot contour value at   *)
(* its offset within the step, in every Env variant (ch3-melody,           *)
(* ch5-biquad-filter, ch6-polyblep).                                       *)
(***************************************************************************)
C3_AllOnContourEveryVariant ==
    (IsEnv /\ AllOn /\ InFirstKSteps) => stepper.ret = Some(ContourAtOffset)

\* the same statement for the two variants whose constructor pops the first note
C3_AllOnContourPoppingVariants ==
    (stepper.variant \in {"ch5", "ch6"} /\ AllOn /\ InFirstKSteps)
        => stepper.ret = Some(ContourAtOffset)

(***************************************************************************)
(* C4: the values of a step sequence are consumed from the tail, one per   *)
(* consumption, none skipped or repeated: the i-th value consumed is the   *)
(* entry i places from the end of the authored sequence, and what is left  *)
(* is the authored sequence without its last i entries.                    *)
(***************************************************************************)
C4_ConsumedFromTail ==
    LET len == Len(stepper.authored)
        k   == Len(stepper.consumed)
    IN  /\ k <= len
        /\ \A i \in 1..k : stepper.consumed[i] = stepper.authored[len - i + 1]
        /\ stepper.self.seq = SubSeq(stepper.authored, 1, len - k)

\* a whole sequence whose ends differ has been consumed during next
C4_Witness ==
    /\ Len(stepper.authored) = MaxSeqLen
    /\ stepper.authored[1] # stepper.authored[MaxSeqLen]
    /\ stepper.consumed = [i \in 1..MaxSeqLen |-> stepper.authored[MaxSeqLen - i + 1]]
    /\ stepper.calls >= 1

(***************************************************************************)
(* C5: once a pop has found the sequence empty, every call returns the     *)
(* default (0.0 from Env, 0 Hz from Track) from then on, and the sequence  *)
(* stays used up; an all-off sequence makes Env return 0.0 on every call.  *)
(***************************************************************************)
C5_DefaultAfterExhaustion ==
    /\ (stepper.exhausted /\ stepper.calls >= 1) =>
          /\ stepper.ret = Some(IF IsEnv THEN Zero ELSE 0)
          /\ stepper.self.seq = <<>>
    /\ (IsEnv /\ AllOff /\ stepper.calls >= 1) => stepper.ret = Some(Zero)

\* an envelope with a note in its sequence, a full step past its exhaustion
C5_Witness ==
    /\ IsEnv /\ stepper.exhausted
    /\ \E i \in 1..Len(stepper.authored) : stepper.authored[i] = TRUE
    /\ stepper.calls = (Len(stepper.authored) + MaxExtraSteps) * stepper.self.step_length
    /\ stepper.ret = Some(Zero)

(***************************************************************************)
(* The `frames` pipeline each example's run builds: dasp's from_iter,      *)
(* mul_amp, take and equilibrium, and std's chain.  What an oscillator, a  *)
(* filter or the string returns is any of the values of Osc.               *)
(***************************************************************************)
\* the device's sample rate; ATTACK and RELEASE must fit in one second
PipeRate == 1000

\* samples of silence appended, `.take(1000)`
SilenceLen == 1000

SEQ == [i \in 1..8 |-> TRUE]

Osc == {<<-1, 1>>, Zero, One}

Examples == {"ch2", "ch3", "ch5", "ch6-polyblep", "ch6-karplus"}

\* signal::from_iter: the first frame is fetched at construction
FromIterNew(e) ==
    LET r == EnvNext(e)
    IN  [iter |-> r.self, next |-> r.ret]

\* FromIterator::next: the fetched frame and a new fetch, or equilibrium
\* once the iterator has ended
FromIterNext(f) ==
    IF f.next # None
    THEN LET r == EnvNext(f.iter)
         IN  [self |-> [iter |-> r.self, next |-> r.ret], ret |-> f.next[1]]
    ELSE [self |-> [f EXCEPT !.next = None], ret |-> Zero]

\* a take that stops one sample early
TakeDoneEarly(n) == n <= 1

\* Take::next: "if self.n == 0 { return None }"
TakeDone(n) == n = 0

\* the signal inside take(): its envelope state after the call and its frame,
\* v being what the oscillator (filter, string) returns
SourceNext(example, envst, v) ==
    CASE example = "ch2" ->
            LET f == FromIterNext(envst) IN [envst |-> f.self, ret |-> RMul(v, f.ret)]
      [] example = "ch3" ->
            LET r == Env3Next(envst) IN [envst |-> r.self, ret |-> RMul(v, r.ret)]
      [] example = "ch5" ->
            LET r == Env5Next(envst) IN [envst |-> r.self, ret |-> RMul(v, r.ret)]
      [] example = "ch6-polyblep" ->
            LET r == Env6Next(envst) IN [envst |-> r.self, ret |-> RMul(v, r.ret)]
      [] example = "ch6-karplus" -> [envst |-> envst, ret |-> v]

\* Take::next of the signal
TakeNext(p, v) ==
    IF TakeDone(p.take_n)
    THEN [self |-> p, ret |-> None]
    ELSE LET r == SourceNext(p.example, p.envst, v)
         IN  [self |-> [p EXCEPT !.take_n = @ - 1, !.envst = r.envst],
              ret  |-> Some(r.ret)]

\* Take::next of signal::equilibrium()
SilenceNext(p) ==
    IF TakeDone(p.silence_n)
    THEN [self |-> p, ret |-> None]
    ELSE [self |-> [p EXCEPT !.silence_n = @ - 1], ret |-> Some(Zero)]

\* Chain::next: the first iterator until it ends (it is then dropped), the
\* second from then on
ChainNext(p, v) ==
    IF p.a_live
    THEN LET r == TakeNext(p, v)
         IN  IF r.ret = None
             THEN SilenceNext([r.self EXCEPT !.a_live = FALSE])
             ELSE r
    ELSE SilenceNext(p)

\* frames.next()
FramesNext(p, v) == IF p.example = "ch2" THEN TakeNext(p, v) ELSE ChainNext(p, v)

\* the pipeline as run builds it for a device of the given sample rate
FramesNew(example, rate) ==
    CASE example = "ch2" ->
            [example |-> example, take_n |-> rate + 1000, a_live |-> TRUE,
             silence_n |-> 0, envst |-> FromIterNew(EnvNew(rate, ATTACK, RELEASE))]
      [] example = "ch3" ->
            [example |-> example, take_n |-> rate * Len(SEQ), a_live |-> TRUE,
             silence_n |-> SilenceLen,
             envst |-> Env3New(SEQ, rate, ATTACK, RELEASE).self]
      [] example = "ch5" ->
            [example |-> example, take_n |-> rate * Len(SEQ), a_live |-> TRUE,
             silence_n |-> SilenceLen,
             envst |-> Env5New(SEQ, rate, ATTACK, RELEASE).self]
      [] example = "ch6-polyblep" ->
            [example |-> example, take_n |-> rate * Len(SEQ), a_live |-> TRUE,
             silence_n |-> SilenceLen,
             envst |-> Env6New(SEQ, rate, ATTACK, RELEASE).self]
      [] example = "ch6-karplus" ->
            [example |-> example, take_n |-> rate * Len(SEQ), a_live |-> TRUE,
             silence_n |-> SilenceLen, envst |-> Idle]

\* the signal's nominal duration
Nominal(example, rate) == IF example = "ch2" THEN rate ELSE rate * Len(SEQ)

InitPipe ==
    /\ \E ex \in Examples :
          pipe = [frames |-> FramesNew(ex, PipeRate), rate |-> PipeRate,
                  ret |-> None, calls |-> 0, produced |-> 0]
    /\ env = Idle /\ stepper = Idle /\ run = Idle /\ lpf = Idle /\ ks = Idle /\ saw = Idle /\ melody = Idle

PipeCall ==
    /\ pipe.calls < Nominal(pipe.frames.example, pipe.rate) + SilenceLen + MaxExtraCalls
    /\ \E v \in Osc :
          LET r == FramesNext(pipe.frames, v)
          IN  pipe' = [pipe EXCEPT !.frames = r.self, !.ret = r.ret, !.calls = @ + 1,
                                   !.produced = IF r.ret = None THEN @ ELSE @ + 1]
    /\ UNCHANGED <<env, stepper, run, lpf, ks, saw, melody>>

NextPipe == PipeCall

SpecPipe == InitPipe /\ [][NextPipe]_vars

(***************************************************************************)
(* C6: every example pipeline returns exactly D + 1000 samples, D being    *)
(* total_frames in ch2 and step_length * 8 in the others; the 1000         *)
(* samples after the first D are exactly 0.0; every call after them        *)
(* returns None.                                                           *)
(***************************************************************************)
C6_SilentTail ==
    LET D == Nominal(pipe.frames.example, pipe.rate)
    IN  pipe.calls >= 1 =>
          /\ pipe.calls <= D + 1000 => (pipe.ret # None /\ pipe.produced = pipe.calls)
          /\ (pipe.calls > D /\ pipe.calls <= D + 1000) => pipe.ret = Some(Zero)
          /\ pipe.calls > D + 1000 => (pipe.ret = None /\ pipe.produced = D + 1000)

\* ch2 asked again after its last sample
C6_Witness ==
    /\ pipe.frames.example = "ch2"
    /\ pipe.calls = pipe.rate + 1000 + MaxExtraCalls
    /\ pipe.produced = pipe.rate + 1000 /\ pipe.ret = None

(***************************************************************************)
(* run and write_data: the control thread builds the stream, plays it,     *)
(* blocks in complete_rx.recv(), pauses the stream and returns; the        *)
(* stream's callback thread calls write_data once per buffer while the     *)
(* stream plays.  write_data is one step per frame: the only state it      *)
(* shares with the control thread is the channel.                          *)
(***************************************************************************)
\* mpsc::sync_channel::<()>(1)
ChannelCap == 1

\* most frames in one buffer handed to the callback
MaxBufFrames == 2

\* most channels of the device
MaxChannels == 2

RunExamples == {"ch2", "ch5"}

\* the frames an oscillator returns while the callback is followed
RunOsc == {<<-1, 1>>, One}

\* a sender that ignores the capacity of the channel
TrySendOverfill(slot, rx_alive) ==
    IF ~rx_alive
    THEN [slot |-> slot, res |-> "Disconnected"]
    ELSE [slot |-> slot + 1, res |-> "Ok"]

\* SyncSender::try_send: the channel after the call and its Result
TrySend(slot, rx_alive) ==
    IF ~rx_alive
    THEN [slot |-> slot, res |-> "Disconnected"]
    ELSE IF slot >= ChannelCap
         THEN [slot |-> slot, res |-> "Full"]
         ELSE [slot |-> slot + 1, res |-> "Ok"]

\* a callback that unwraps the Result of try_send
SendUnwrapped(res) == res = "Ok"

\* `.ok()`: whether write_data goes on after try_send returned res
SendIgnored(res) == TRUE

\* a callback that writes silence after the end and notifies nobody
FrameSampleNoSend(opt, slot, rx_alive) ==
    IF opt # None
    THEN [sample |-> opt[1], slot |-> slot, res |-> "NotSent"]
    ELSE [sample |-> Zero, slot |-> slot, res |-> "NotSent"]

\* the sample written when the pipeline returns opt, with the send it makes
FrameSample(opt, slot, rx_alive) ==
    IF opt # None
    THEN [sample |-> opt[1], slot |-> slot, res |-> "NotSent"]
    ELSE LET t == TrySend(slot, rx_alive)
         IN  [sample |-> Zero, slot |-> t.slot, res |-> t.res]

InitRun ==
    /\ \E ex \in RunExamples, ch \in 1..MaxChannels :
          run = [frames |-> FramesNew(ex, PipeRate), ended |-> FALSE,
                 stream |-> "built", ctl |-> "play",
                 slot |-> 0, rx_alive |-> TRUE,
                 cb |-> "idle", channels |-> ch, nframes |-> 0, output |-> <<>>,
                 sent |-> 0, received |-> 0, full_seen |-> FALSE]
    /\ env = Idle /\ stepper = Idle /\ pipe = Idle /\ lpf = Idle /\ ks = Idle /\ saw = Idle /\ melody = Idle

\* stream.play()
Play ==
    /\ run.ctl = "play"
    /\ run' = [run EXCEPT !.stream = "playing", !.ctl = "recv"]
    /\ UNCHANGED <<env, stepper, pipe, lpf, ks, saw, melody>>

\* complete_rx.recv() returns: it blocks while the channel is empty
Recv ==
    /\ run.ctl = "recv" /\ run.slot > 0
    /\ run' = [run EXCEPT !.slot = @ - 1, !.received = @ + 1, !.ctl = "pause"]
    /\ UNCHANGED <<env, stepper, pipe, lpf, ks, saw, melody>>

\* stream.pause()
Pause ==
    /\ run.ctl = "pause"
    /\ run' = [run EXCEPT !.stream = "paused", !.ctl = "return"]
    /\ UNCHANGED <<env, stepper, pipe, lpf, ks, saw, melody>>

\* run returns: the stream is dropped first (its callback no longer runs),
\* then the receiver
Return ==
    /\ run.ctl = "return" /\ run.cb # "running"
    /\ run' = [run EXCEPT !.stream = "dropped", !.rx_alive = FALSE, !.ctl = "done"]
    /\ UNCHANGED <<env, stepper, pipe, lpf, ks, saw, melody>>

\* the stream calls write_data with a buffer of n frames
CallbackStart ==
    /\ run.stream = "playing" /\ run.cb = "idle"
    /\ \E n \in 1..MaxBufFrames :
          run' = [run EXCEPT !.cb = "running", !.nframes = n, !.output = <<>>]
    /\ UNCHANGED <<env, stepper, pipe, lpf, ks, saw, melody>>

\* one turn of write_data's loop over output.chunks_mut(channels); the call
\* returns with the last frame of the buffer
WriteFrame ==
    /\ run.cb = "running"
    /\ \E v \in RunOsc :
        \E r \in {FramesNext(run.frames, v)} :
        \E f \in {FrameSample(r.ret, run.slot, run.rx_alive)} :
          LET ended == run.ended \/ r.ret = None
              cell  == [sample |-> f.sample, after_end |-> ended]
              out   == run.output \o [c \in 1..run.channels |-> cell]
          IN  IF f.res \in {"NotSent"} \/ SendIgnored(f.res)
              THEN run' = [run EXCEPT
                             !.frames = r.self, !.ended = ended, !.slot = f.slot,
                             !.sent = IF f.res = "Ok" THEN @ + 1 ELSE @,
                             !.full_seen = @ \/ f.res = "Full",
                             !.output = out,
                             !.cb = IF Len(out) = run.nframes * run.channels
                                    THEN "idle" ELSE "running"]
              ELSE run' = [run EXCEPT
                             !.frames = r.self, !.ended = ended, !.slot = f.slot,
                             !.full_seen = @ \/ f.res = "Full",
                             !.cb = "panicked"]
    /\ UNCHANGED <<env, stepper, pipe, lpf, ks, saw, melody>>

NextRun == Play \/ Recv \/ Pause \/ Return \/ CallbackStart \/ WriteFrame

SpecRun == InitRun /\ [][NextRun]_vars

(***************************************************************************)
(* C7: in every interleaving of the callback thread and the control        *)
(* thread the completion notification is sent exactly once and received    *)
(* exactly once over the whole run (never a second time), and it is never  *)
(* sent before the pipeline has returned None.                             *)
(***************************************************************************)
C7_NotifiedExactlyOnce ==
    /\ run.sent <= 1
    /\ run.received <= 1
    /\ run.sent >= 1 => run.ended
    /\ run.ctl = "done" => (run.sent = 1 /\ run.received = 1)

\* what the code does keep: one receipt, no send before the end, at most one
\* notification pending
C7_ReceivedOnceAfterEnd ==
    /\ run.received <= 1
    /\ run.sent >= 1 => run.ended
    /\ run.received <= run.sent
    /\ run.slot <= ChannelCap
    /\ run.ctl = "done" => run.received = 1

(***************************************************************************)
(* C8: once the pipeline has returned None, write_data writes the sample   *)
(* 0 to every channel of every remaining frame of the buffer and of every  *)
(* later buffer, and the callback neither fails nor stops short: each      *)
(* call of write_data fills its whole buffer.                              *)
(***************************************************************************)
C8_SilenceAfterEnd ==
    /\ \A i \in 1..Len(run.output) :
          run.output[i].after_end => run.output[i].sample = Zero
    /\ run.cb # "panicked"
    /\ Len(run.output) <= run.nframes * run.channels
    /\ run.cb = "idle" => Len(run.output) = run.nframes * run.channels

\* a whole buffer written after the end while the slot was occupied
C8_Witness ==
    /\ run.cb = "idle" /\ run.full_seen
    /\ run.nframes = MaxBufFrames /\ run.channels = MaxChannels
    /\ Len(run.output) = MaxBufFrames * MaxChannels
    /\ \A i \in 1..Len(run.output) :
          run.output[i].after_end /\ run.output[i].sample = Zero

(***************************************************************************)
(* ch5-biquad-filter: the low-pass filter.  Lpf keeps its history in two   *)
(* dasp ring_buffer::Fixed<[f64; 2]> (Representation B); Representation A  *)
(* keeps explicit registers x0..x2, y0..y2 that it shifts on every call.   *)
(* omega0 = 2 pi fc / fs is given by its cosine and sine, taken among the  *)
(* angles whose cosine and sine are rational.                              *)
(***************************************************************************)
\* samples filtered
MaxSamples == 5

\* <<cos(omega0), sin(omega0)>>
Angles == { <<<<3, 5>>, <<4, 5>>>>, <<<<4, 5>>, <<3, 5>>>>, <<Zero, One>> }

Qs == { <<1, 2>>, One }

\* frames of the filtered signal
Inputs == { <<-1, 1>>, Zero, One }

Two == <<2, 1>>

\* ring_buffer::Fixed::from([0.0; 2])
FixedNew == [first |-> 0, data |-> <<Zero, Zero>>]

\* an index taken on the array itself, not from the buffer's first element
FixedGetRaw(rb, i) == rb.data[i + 1]

\* Fixed's Index: element i counted from the oldest
FixedGet(rb, i) == rb.data[((rb.first + i) % Len(rb.data)) + 1]

\* a push that replaces the oldest element and leaves it the oldest
FixedPushNoAdvance(rb, item) ==
    [first |-> rb.first, data |-> [rb.data EXCEPT ![rb.first + 1] = item]]

\* Fixed::push: the oldest element is replaced, the next becomes the oldest
FixedPush(rb, item) ==
    [first |-> IF rb.first + 1 = Len(rb.data) THEN 0 ELSE rb.first + 1,
     data  |-> [rb.data EXCEPT ![rb.first + 1] = item]]

\* alpha = omega0.sin() / 2.0 / q
Alpha(sin, q) == RDiv(RDiv(sin, Two), q)

LpfNew(cos, sin, q) ==
    [cos |-> cos, sin |-> sin, q |-> q, before |-> FixedNew, after |-> FixedNew]

\* Lpf::next for the frame orig of the inner signal
LpfNext(l, orig) ==
    LET alpha == Alpha(l.sin, l.q)
        b     == RSub(One, l.cos)
        sum   == RSub(RSub(RAdd(RAdd(RMul(RDiv(b, Two), orig),
                                      RMul(b, FixedGet(l.before, 1))),
                                 RMul(RDiv(b, Two), FixedGet(l.before, 0))),
                            RMul(RMul(<<-2, 1>>, l.cos), FixedGet(l.after, 1))),
                       RMul(RSub(One, alpha), FixedGet(l.after, 0)))
        out   == RDiv(sum, RAdd(One, alpha))
    IN  [self |-> [l EXCEPT !.before = FixedPush(l.before, orig),
                            !.after = FixedPush(l.after, out)],
         ret  |-> out]

RegsNew(cos, sin, q) ==
    [cos |-> cos, sin |-> sin, q |-> q,
     x0 |-> Zero, x1 |-> Zero, x2 |-> Zero, y0 |-> Zero, y1 |-> Zero, y2 |-> Zero]

\* Representation A: the registers are shifted, then
\* out = [(1-cos)/2 x0 + (1-cos) x1 + (1-cos)/2 x2 + 2cos y1 - (1-alpha) y2] / (1+alpha)
RegsNext(g, orig) ==
    LET alpha == Alpha(g.sin, g.q)
        b     == RSub(One, g.cos)
        x0    == orig
        x1    == g.x0
        x2    == g.x1
        y1    == g.y0
        y2    == g.y1
        sum   == RSub(RAdd(RAdd(RAdd(RMul(RDiv(b, Two), x0), RMul(b, x1)),
                                 RMul(RDiv(b, Two), x2)),
                            RMul(RMul(Two, g.cos), y1)),
                       RMul(RSub(One, alpha), y2))
        out   == RDiv(sum, RAdd(One, alpha))
    IN  [self |-> [g EXCEPT !.x0 = x0, !.x1 = x1, !.x2 = x2,
                            !.y0 = out, !.y1 = y1, !.y2 = y2],
         ret  |-> out]

InitLpf ==
    /\ \E w \in Angles, q \in Qs :
          lpf = [b |-> LpfNew(w[1], w[2], q), a |-> RegsNew(w[1], w[2], q),
                 orig |-> Zero, outA |-> Zero, outB |-> Zero, t |-> 0,
                 ins |-> <<>>, outs |-> <<>>]
    /\ env = Idle /\ stepper = Idle /\ pipe = Idle /\ run = Idle /\ ks = Idle /\ saw = Idle /\ melody = Idle

\* both representations are given the same frame
LpfCall ==
    /\ lpf.t < MaxSamples
    /\ \E orig \in Inputs :
          LET rb == LpfNext(lpf.b, orig)
              ra == RegsNext(lpf.a, orig)
          IN  lpf' = [b |-> rb.self, a |-> ra.self, orig |-> orig,
                      outA |-> ra.ret, outB |-> rb.ret, t |-> lpf.t + 1,
                      ins |-> Append(lpf.ins, orig),
                      outs |-> Append(lpf.outs, rb.ret)]
    /\ UNCHANGED <<env, stepper, pipe, run, ks, saw, melody>>

NextLpf == LpfCall

SpecLpf == InitLpf /\ [][NextLpf]_vars

(***************************************************************************)
(* C9: Representation A (shift registers) and Representation B (Lpf's two  *)
(* ring buffers), both started from zero and given the same inputs and     *)
(* the same (fs, fc, q), return the same output at every sample.           *)
(***************************************************************************)
C9_SameOutput == lpf.t >= 1 => lpf.outA = lpf.outB

\* a sample whose output rests on two earlier, different, non-zero outputs
C9_Witness ==
    /\ lpf.t = MaxSamples
    /\ lpf.outA = lpf.outB /\ lpf.outB # Zero
    /\ FixedGet(lpf.b.after, 0) # Zero
    /\ FixedGet(lpf.b.after, 0) # FixedGet(lpf.b.after, 1)
    /\ FixedGet(lpf.b.before, 0) # FixedGet(lpf.b.before, 1)
    /\ lpf.b.cos # Zero

(***************************************************************************)
(* ch6-karplus: KarplusStrong.  The delay line is a dasp                   *)
(* ring_buffer::Bounded<[f64; 1024]>.  The loop gain c, which new derives  *)
(* from f0, d and decay with powf, cos and sqrt and clamps to [0, 1], is   *)
(* any value of Gains; a noise sample is any value of NoiseSamples.        *)
(***************************************************************************)
\* [f64; 1024]
DelayCap == 1024

\* calls of next followed
MaxKsCalls == 8

\* <<fs, f0, d>>: the example's f0 = 220.0 and d = 0.05 at device rates
\* around the capacity, and short strings
KsInputs ==
    { <<48000, <<220, 1>>, <<1, 20>>>>, <<225280, <<220, 1>>, <<1, 20>>>>,
      <<225500, <<220, 1>>, <<1, 20>>>>, <<384000, <<220, 1>>, <<1, 20>>>>,
      <<1024, One, <<1, 2>>>>, <<1025, One, <<1, 2>>>>,
      <<6, Two, <<1, 2>>>>, <<8, Two, Zero>> }

Gains == { <<1, 2>>, One }

NoiseSamples == { <<-1, 1>>, One }

\* f64::floor
Floor(x) == x[1] \div x[2]

\* `as usize` of a floored f64: negative values saturate to 0
AsUsize(n) == IF n < 0 THEN 0 ELSE n

\* f64::fract: x - x.trunc()
Fract(x) == RSub(x, <<IF x[1] >= 0 THEN x[1] \div x[2] ELSE -((-x[1]) \div x[2]), 1>>)

\* a constructor that checks nothing
BoundedUnchecked(start, len, data) ==
    [ok |-> TRUE, start |-> start, len |-> len, data |-> data]

\* Bounded::from_raw_parts: it asserts start < data.len() and len <= data.len()
BoundedFromRawParts(start, len, data) ==
    IF start < Len(data) /\ len <= Len(data)
    THEN [ok |-> TRUE, start |-> start, len |-> len, data |-> data]
    ELSE [ok |-> FALSE]

\* a pop that takes the newest element instead of the oldest
BoundedPopBack(rb) ==
    IF rb.len = 0
    THEN [self |-> rb, val |-> None]
    ELSE [self |-> [rb EXCEPT !.len = @ - 1],
          val  |-> Some(rb.data[((rb.start + rb.len - 1) % Len(rb.data)) + 1])]

\* Bounded::pop
BoundedPop(rb) ==
    IF rb.len = 0
    THEN [self |-> rb, val |-> None]
    ELSE [self |-> [rb EXCEPT !.start = IF rb.start + 1 >= Len(rb.data) THEN 0
                                        ELSE rb.start + 1,
                              !.len = @ - 1],
          val  |-> Some(rb.data[rb.start + 1])]

\* Bounded::push: a full buffer has its oldest element overwritten
BoundedPush(rb, elem) ==
    IF rb.len = Len(rb.data)
    THEN [rb EXCEPT !.data[rb.start + 1] = elem,
                    !.start = IF rb.start + 1 >= Len(rb.data) THEN 0
                              ELSE rb.start + 1]
    ELSE [rb EXCEPT !.data[((rb.start + rb.len) % Len(rb.data)) + 1] = elem,
                    !.len = @ + 1]

\* KarplusStrong::new, c being the clamped loop gain; a failed assertion
\* leaves no KarplusStrong (constructed = FALSE)
KsNew(fs, f0, d, c) ==
    LET delay             == RSub(RDiv(<<fs, 1>>, f0), d)
        delay_line_length == AsUsize(Floor(delay)) + 1
        e                 == Fract(delay)
        g                 == RDiv(RSub(One, e), RAdd(One, e))
        delay_line        == BoundedFromRawParts(0, delay_line_length,
                                                 [i \in 1..DelayCap |-> Zero])
    IN  IF ~delay_line.ok
        THEN [constructed |-> FALSE]
        ELSE [constructed |-> TRUE, cur_frame |-> 0, fs |-> fs, g |-> g, c |-> c, d |-> d,
              delay_line_length |-> delay_line_length, delay_line |-> delay_line,
              last_delayed_sample |-> Zero, last_all_passed_feedback |-> Zero]

\* KarplusStrong::next, noise being what the noise source returns if asked;
\* beside the struct and the sample: whether noise was injected, and what
\* the pop at the start of the call returned
KsNext(k, noise) ==
    LET cur_frame           == k.cur_frame + 1
        p                   == BoundedPop(k.delay_line)
        cur_delayed_sample  == UnwrapOr(p.val, Zero)
        all_passed_feedback == RAdd(RAdd(RMul(RNeg(k.g), k.last_all_passed_feedback),
                                         RMul(k.g, cur_delayed_sample)),
                                    k.last_delayed_sample)
        noisy               == (cur_frame % k.fs) < k.delay_line_length
        orig_noise          == IF noisy THEN noise ELSE Zero
        out                 == RAdd(orig_noise,
                                    RMul(k.c,
                                         RAdd(RMul(RSub(One, k.d), all_passed_feedback),
                                              RMul(k.d, k.last_all_passed_feedback))))
    IN  [self  |-> [k EXCEPT !.cur_frame = cur_frame,
                             !.last_all_passed_feedback = all_passed_feedback,
                             !.last_delayed_sample = cur_delayed_sample,
                             !.delay_line = BoundedPush(p.self, out)],
         ret    |-> out,
         noisy  |-> noisy,
         popped |-> p.val]

InitKs ==
    /\ \E in \in KsInputs, c \in Gains :
          ks = [self |-> KsNew(in[1], in[2], in[3], c),
                fs |-> in[1], f0 |-> in[2], d |-> in[3], ret |-> None, calls |-> 0,
                noisy |-> FALSE, popped |-> None, outs |-> <<>>]
    /\ env = Idle /\ stepper = Idle /\ pipe = Idle /\ run = Idle /\ lpf = Idle /\ saw = Idle /\ melody = Idle

KsCall ==
    /\ ks.self.constructed /\ ks.calls < MaxKsCalls
    /\ \E noise \in NoiseSamples :
          LET r == KsNext(ks.self, noise)
          IN  ks' = [ks EXCEPT !.self = r.self, !.ret = Some(r.ret), !.calls = @ + 1,
                               !.noisy = r.noisy, !.popped = r.popped,
                               !.outs = Append(@, r.ret)]
    /\ UNCHANGED <<env, stepper, pipe, run, lpf, saw, melody>>

NextKs == KsCall

SpecKs == InitKs /\ [][NextKs]_vars

\* floor(fs / f0 - d) + 1, from the arguments of new
LogicalLength ==
    LET num == ks.fs * ks.f0[2] * ks.d[2] - ks.d[1] * ks.f0[1]
        den == ks.f0[1] * ks.d[2]
    IN  (num \div den) + 1

(***************************************************************************)
(* C10: KarplusStrong::new computes the logical delay-line length as       *)
(* floor(fs/f0 - d) + 1; construction fails whenever that length exceeds   *)
(* the capacity 1024 (nothing is truncated, no other length is built),     *)
(* and whenever it succeeds the length is at most 1024.                    *)
(***************************************************************************)
C10_LengthCheckedAtConstruction ==
    /\ LogicalLength > 1024 => ~ks.self.constructed
    /\ ks.self.constructed =>
          /\ ks.self.delay_line_length = LogicalLength
          /\ ks.self.delay_line_length <= 1024
          /\ ks.calls = 0 => ks.self.delay_line.len = LogicalLength

\* the example's string at a device rate one step past the capacity
C10_Witness ==
    /\ ks.fs = 225500 /\ ks.f0 = <<220, 1>> /\ ks.d = <<1, 20>>
    /\ LogicalLength = 1025
    /\ ~ks.self.constructed

(***************************************************************************)
(* The two kinds of envelope side by side, built from any lengths the     *)
(* constructors accept: Env::new takes usize arguments and checks none of *)
(* them, so zero attack and release lengths are among them.               *)
(***************************************************************************)
\* the lengths given to both constructors: attack and release from 0 up
AnyLengths ==
    {<<t, a, r>> \in (1..MaxStep) \X (0..MaxAttack) \X (0..MaxStep) : r <= t}

InitEnvs ==
    /\ \E p \in AnyLengths, k \in 1..MaxSeqLen :
          LET seq == [i \in 1..k |-> TRUE]
          IN  /\ env = [self |-> EnvNew(p[1], p[2], p[3]), ret |-> None,
                        calls |-> 0]
              /\ \/ stepper = Started("ch3", seq, Env3New(seq, p[1], p[2], p[3]))
                 \/ stepper = Started("ch5", seq, Env5New(seq, p[1], p[2], p[3]))
                 \/ stepper = Started("ch6", seq, Env6New(seq, p[1], p[2], p[3]))
    /\ pipe = Idle /\ run = Idle /\ lpf = Idle /\ ks = Idle /\ saw = Idle /\ melody = Idle

NextEnvs == EnvCall \/ Env3Call \/ Env5Call \/ Env6Call

SpecEnvs == InitEnvs /\ [][NextEnvs]_vars

ZeroLength(e) == e.attack_frames = 0 \/ e.release_frames = 0

\* C11: an envelope (one-shot or step-sequenced) whose attack_frames or
\* release_frames is 0 fails at construction, so no such envelope is ever
\* asked for a sample.
C11_ZeroLengthNeverSampled ==
    /\ ZeroLength(env.self) => env.calls = 0
    /\ ZeroLength(stepper.self) => stepper.calls = 0

\* what the code does with a zero length: the ramp of that length is never
\* entered (cur_frame >= 1 > attack_frames = 0, and cur_frame never exceeds
\* total_frames - 0 before the end test), so every sample is 0, 1 or a ramp
\* value of the other, positive, length
C11_ZeroLengthSamples ==
    /\ (ZeroLength(env.self) /\ env.ret # None) =>
          \/ env.ret[1] = One
          \/ env.self.cur_frame <= env.self.attack_frames
          \/ env.self.cur_frame > env.self.total_frames - env.self.release_frames
    /\ (ZeroLength(stepper.self) /\ stepper.ret # None) =>
          \/ stepper.ret[1] \in {Zero, One}
          \/ stepper.self.cur_frame <= stepper.self.attack_frames
          \/ stepper.self.cur_frame >
                stepper.self.step_length - stepper.self.release_frames

\* C14 as stated: in every envelope state (one-shot and step-sequenced)
\* current_frame never decreases from one call of next to the following call.
C14_CurFrameNeverDecreases ==
    [][/\ env'.self.cur_frame >= env.self.cur_frame
       /\ stepper'.self.cur_frame >= stepper.self.cur_frame]_vars

\* C14 amended: the one-shot envelope's current_frame grows by one on every
\* call; the step-sequenced envelope's current_frame grows by one on every
\* call but the one that finds it equal to step_length, which sets it to 1.
C14_CurFrameAdvancesOrWraps ==
    [][/\ env' # env => env'.self.cur_frame = env.self.cur_frame + 1
       /\ stepper' # stepper =>
             stepper'.self.cur_frame =
                IF stepper.self.cur_frame = stepper.self.step_length
                THEN 1
                ELSE stepper.self.cur_frame + 1]_vars

\* a step-sequenced envelope with step_length >= 2 just after its first
\* wrap, beside a one-shot envelope that has been called
C14_Witness ==
    /\ stepper.self.step_length >= 2
    /\ stepper.calls = stepper.self.step_length + 1
    /\ stepper.self.cur_frame = 1
    /\ env.calls >= 1
    /\ env.self.cur_frame = env.calls

(***************************************************************************)
(* KarplusStrong::next: the noise bursts and the delay line.               *)
(***************************************************************************)
\* C12: with the produced frames divided into consecutive cycles of fs
\* frames, the first cycle starting with the first sample produced, noise is
\* injected on exactly the first delay_line_length frames of every cycle,
\* the first cycle included, and on no other frame.
C12_NoiseOnFirstFramesOfCycle ==
    (ks.self.constructed /\ ks.calls >= 1) =>
        (ks.noisy <=> ((ks.calls - 1) % ks.fs) < ks.self.delay_line_length)

\* the window the code tests, after cur_frame has been incremented: frame n
\* is noisy exactly when n mod fs < delay_line_length, so the first burst is
\* frames 1 .. delay_line_length - 1 and every later one starts on frame k*fs
C12_NoiseWindowOfTheCode ==
    (ks.self.constructed /\ ks.calls >= 1) =>
        /\ ks.self.cur_frame = ks.calls
        /\ ks.noisy <=> (ks.calls % ks.fs) < ks.self.delay_line_length

\* the n-th output, 0.0 for n <= 0
OutputOfCall(n) == IF n <= 0 THEN Zero ELSE ks.outs[n]

\* C18: after every call of KarplusStrong::next the delay line holds exactly
\* delay_line_length values (at most the capacity 1024); the pop at the
\* start of every call finds the line non-empty; the value popped at call n
\* is the output of call n - delay_line_length (0.0 for n <=
\* delay_line_length); no pushed output is overwritten before it is popped:
\* the line holds the last delay_line_length outputs, oldest first.
C18_DelayLineHoldsLastOutputs ==
    ks.self.constructed =>
        LET L  == ks.self.delay_line_length
            rb == ks.self.delay_line
        IN  /\ rb.len = L
            /\ L <= DelayCap
            /\ ks.calls >= 1 =>
                  /\ ks.popped # None
                  /\ ks.popped[1] = OutputOfCall(ks.calls - L)
            /\ \A i \in 0..(L - 1) :
                  rb.data[((rb.start + i) % Len(rb.data)) + 1] =
                     OutputOfCall(ks.calls - L + 1 + i)

\* a call that popped an output pushed delay_line_length calls earlier, the
\* line having been refilled more than once
C18_Witness ==
    /\ ks.self.constructed
    /\ ks.calls > 2 * ks.self.delay_line_length
    /\ ks.popped # None
    /\ ks.popped[1] # Zero
    /\ ks.popped[1] = ks.outs[ks.calls - ks.self.delay_line_length]

(***************************************************************************)
(* ch6-polyblep: PolyBlepSaw over a constant-frequency Phase.              *)
(***************************************************************************)
\* calls of PolyBlepSaw::next followed (220 Hz at 48 kHz wraps at call 220)
MaxSawCalls == 230

\* <<hz, rate>>: the example's 220 Hz at two device rates, and short periods
\* up to and past half the rate
SawInputs ==
    { <<220, 48000>>, <<220, 44100>>, <<1, 8>>, <<1, 4>>, <<1, 3>>, <<2, 5>>,
      <<3, 7>>, <<1, 2>>, <<3, 5>> }

\* a < b on f64 values
RLt(a, b) == a[1] * b[2] < b[1] * a[2]

\* ConstHz::phase: Phase { step, next: 0.0 }, the step being hz / rate
PhaseNew(hz, rate) == [step |-> Frac(hz, rate), next |-> Zero]

\* Phase::next_phase: returns `next`, then advances it by the step modulo 1.0
NextPhase(ph) ==
    [self  |-> [ph EXCEPT !.next = Fract(RAdd(ph.next, ph.step))],
     phase |-> ph.next]

\* PolyBlepSaw::new
PolyBlepSawNew(phase) == [phase |-> phase, prev_phase |-> Zero]

\* `delta` of PolyBlepSaw::next
Delta(phase, prev_phase) ==
    IF RLt(prev_phase, phase)
    THEN RSub(phase, prev_phase)
    ELSE RSub(RAdd(One, phase), prev_phase)

\* a correction applied over a window twice as wide
PolyBlepWide(phase, delta) ==
    LET w == RMul(Two, delta)
    IN  IF RLt(phase, w)
        THEN LET t == RDiv(phase, w)
             IN  RSub(RAdd(RNeg(RMul(t, t)), RMul(Two, t)), One)
        ELSE IF RLt(RSub(One, w), phase)
             THEN LET t == RDiv(RSub(phase, One), w)
                  IN  RAdd(RAdd(RMul(t, t), RMul(Two, t)), One)
             ELSE Zero

\* what PolyBlepSaw::next adds to the naive value
PolyBlep(phase, delta) ==
    IF RLt(phase, delta)
    THEN LET t == RDiv(phase, delta)
         IN  RSub(RAdd(RNeg(RMul(t, t)), RMul(Two, t)), One)
    ELSE IF RLt(RSub(One, delta), phase)
         THEN LET t == RDiv(RSub(phase, One), delta)
              IN  RAdd(RAdd(RMul(t, t), RMul(Two, t)), One)
         ELSE Zero

\* the naive sawtooth, 1 - 2 * phase
NaiveSaw(phase) == RAdd(RMul(phase, <<-2, 1>>), One)

\* PolyBlepSaw::next: the struct after the call, the sample, and the phase
\* and delta the call computed
PolyBlepSawNext(s) ==
    LET np    == NextPhase(s.phase)
        phase == np.phase
        delta == Delta(phase, s.prev_phase)
    IN  [self  |-> [phase |-> np.self, prev_phase |-> phase],
         ret   |-> RAdd(NaiveSaw(phase), PolyBlep(phase, delta)),
         phase |-> phase,
         delta |-> delta]

InitSaw ==
    /\ \E in \in SawInputs :
          saw = [self |-> PolyBlepSawNew(PhaseNew(in[1], in[2])),
                 ret |-> None, phase |-> Zero, before |-> Zero, delta |-> Zero,
                 calls |-> 0]
    /\ env = Idle /\ stepper = Idle /\ pipe = Idle /\ run = Idle /\ lpf = Idle
    /\ ks = Idle /\ melody = Idle

SawCall ==
    /\ saw.calls < MaxSawCalls
    /\ LET r == PolyBlepSawNext(saw.self)
       IN  saw' = [self |-> r.self, ret |-> Some(r.ret), phase |-> r.phase,
                   before |-> saw.self.prev_phase, delta |-> r.delta,
                   calls |-> saw.calls + 1]
    /\ UNCHANGED <<env, stepper, pipe, run, lpf, ks, melody>>

NextSaw == SawCall

SpecSaw == InitSaw /\ [][NextSaw]_vars

\* the phase increment f/fs
Increment == saw.self.phase.step

\* the phase of the last call wrapped: it is below the phase of the call
\* before it
WrappedBefore == saw.calls >= 2 /\ RLt(saw.phase, saw.before)

\* the phase of the following call wraps
WrapsNext == ~RLt(RAdd(saw.phase, Increment), One)

\* C13: for a constant frequency with phase increment below 1/2 the output of
\* PolyBlepSaw::next differs from the naive value 1 - 2 * phase only on the
\* last sample before a phase wrap and the first sample after one.
C13_NaiveAwayFromWraps ==
    (saw.calls >= 1 /\ RLt(Increment, <<1, 2>>)) =>
        (saw.ret[1] # NaiveSaw(saw.phase) => (WrappedBefore \/ WrapsNext))

\* C13 amended: ... only on the very first sample (phase 0), on the last
\* sample before a phase wrap and on the first sample after one.
C13_NaiveAwayFromWrapsAndStart ==
    (saw.calls >= 1 /\ RLt(Increment, <<1, 2>>)) =>
        (saw.ret[1] # NaiveSaw(saw.phase) =>
            (saw.calls = 1 \/ WrappedBefore \/ WrapsNext))

\* a corrected sample right after a wrap, the samples since the previous
\* wrap having been left at the naive value
C13_Witness ==
    /\ RLt(Increment, <<1, 2>>)
    /\ WrappedBefore
    /\ saw.ret[1] # NaiveSaw(saw.phase)
    /\ saw.calls >= 4

\* C19: on every sample, the very first and the ones on which the phase
\* wrapped included, delta is the forward phase increment f/fs.
C19_DeltaIsIncrement ==
    saw.calls >= 1 => saw.delta = Increment

\* from the second sample on delta is the increment, wrapped or not; on the
\* first sample prev_phase is the 0.0 of the constructor and delta is 1.0
C19_DeltaFromSecondSample ==
    /\ saw.calls >= 2 => saw.delta = Increment
    /\ saw.calls = 1 => (saw.delta = One /\ saw.phase = Zero)

(***************************************************************************)
(* Lpf::next: what the two ring buffers hold.                              *)
(***************************************************************************)
\* the input and the output of call n of Lpf::next, 0.0 before the first
InputOfCall(n) == IF n <= 0 THEN Zero ELSE lpf.ins[n]

LpfOutputOfCall(n) == IF n <= 0 THEN Zero ELSE lpf.outs[n]

\* the expression of Lpf::next on named values: x0 the current input, x1 and
\* x2 the inputs one and two calls before, y1 and y2 the outputs one and two
\* calls before
Biquad(cos, sin, q, x0, x1, x2, y1, y2) ==
    LET alpha == Alpha(sin, q)
        b     == RSub(One, cos)
    IN  RDiv(RSub(RSub(RAdd(RAdd(RMul(RDiv(b, Two), x0), RMul(b, x1)),
                            RMul(RDiv(b, Two), x2)),
                       RMul(RMul(<<-2, 1>>, cos), y1)),
                  RMul(RSub(One, alpha), y2)),
             RAdd(One, alpha))

\* C17: with t - 1 calls of Lpf::next made (so at the t-th call, and after
\* call t - 1) before[1] and before[0] hold the inputs of calls t - 1 and
\* t - 2, after[1] and after[0] the outputs of calls t - 1 and t - 2 (0 for
\* calls that precede the first); the output of a call is the biquad
\* expression of its input and the four values the buffers held before the
\* call, so they are read before the pushes and nothing else is used.
C17_BuffersHoldLastTwo ==
    LET n == lpf.t
    IN  /\ FixedGet(lpf.b.before, 1) = InputOfCall(n)
        /\ FixedGet(lpf.b.before, 0) = InputOfCall(n - 1)
        /\ FixedGet(lpf.b.after, 1) = LpfOutputOfCall(n)
        /\ FixedGet(lpf.b.after, 0) = LpfOutputOfCall(n - 1)
        /\ Len(lpf.ins) = n /\ Len(lpf.outs) = n
        /\ n >= 1 =>
              lpf.outs[n] = Biquad(lpf.b.cos, lpf.b.sin, lpf.b.q,
                                   InputOfCall(n), InputOfCall(n - 1),
                                   InputOfCall(n - 2), LpfOutputOfCall(n - 1),
                                   LpfOutputOfCall(n - 2))

\* a call whose two earlier inputs differ from each other and from the
\* current one, and whose two earlier outputs differ and are not zero
C17_Witness ==
    /\ lpf.t >= 4
    /\ lpf.ins[lpf.t] # lpf.ins[lpf.t - 1]
    /\ lpf.ins[lpf.t - 1] # lpf.ins[lpf.t - 2]
    /\ lpf.ins[lpf.t] # lpf.ins[lpf.t - 2]
    /\ lpf.outs[lpf.t - 1] # lpf.outs[lpf.t - 2]
    /\ lpf.outs[lpf.t - 1] # Zero /\ lpf.outs[lpf.t - 2] # Zero
    /\ FixedGet(lpf.b.after, 0) = lpf.outs[lpf.t - 1]

(***************************************************************************)
(* Step boundaries of the step-sequenced Env and of Track.                 *)
(***************************************************************************)
\* the step boundaries crossed by the first n calls of next: calls
\* step_length + 1, 2 * step_length + 1, ...
BoundariesIn(n, step_length) == IF n = 0 THEN 0 ELSE (n - 1) \div step_length

\* C20: for the step-sequenced Env and the Track with step_length >= 1,
\* after the n-th call of next (n >= 1) cur_frame = ((n - 1) mod step_length)
\* + 1, so 1 <= cur_frame <= step_length; next pops the sequence exactly on
\* calls step_length + 1, 2 * step_length + 1, ..., once per such call and
\* on no other call, each pop consuming one value while any is left.
C20_OnePopPerStepBoundary ==
    LET n  == stepper.calls
        sl == stepper.self.step_length
        k  == BoundariesIn(n, sl)
        c0 == IF stepper.variant \in {"ch5", "ch6"} /\ stepper.authored # <<>>
              THEN 1 ELSE 0
    IN  /\ n >= 1 =>
              /\ stepper.self.cur_frame = ((n - 1) % sl) + 1
              /\ 1 <= stepper.self.cur_frame
              /\ stepper.self.cur_frame <= sl
        /\ stepper.pops = k
        /\ Len(stepper.consumed) =
              (IF c0 + k <= Len(stepper.authored) THEN c0 + k
               ELSE Len(stepper.authored))
        /\ Len(stepper.self.seq) = Len(stepper.authored) - Len(stepper.consumed)

\* the call that crosses the second step boundary of steps longer than one
\* frame, a second value having been consumed on it
C20_Witness ==
    /\ stepper.self.step_length >= 2
    /\ stepper.calls = 2 * stepper.self.step_length + 1
    /\ stepper.self.cur_frame = 1
    /\ stepper.pops = 2
    /\ ~stepper.exhausted
    /\ Len(stepper.authored) = MaxSeqLen

(***************************************************************************)
(* The completion channel under load, and the end of the wait.             *)
(***************************************************************************)
\* a step of write_data's loop: the callback was running and the control
\* thread did not move
WriteStep == run.cb = "running" /\ run' # run /\ run'.ctl = run.ctl

\* C16: a completion send attempted while the single slot is occupied (a
\* second None frame in the same buffer, or a later buffer before the
\* control thread has received) is dropped and does not block the callback:
\* the channel never holds more than one notification, the loop goes on to
\* the next frame whatever try_send returned, and every buffer is filled.
C16_FullSendDropped ==
    /\ [](/\ run.slot <= ChannelCap
          /\ run.cb # "panicked"
          /\ run.cb = "idle" => Len(run.output) = run.nframes * run.channels)
    /\ [][(WriteStep /\ run'.ended /\ run.slot >= ChannelCap) =>
             /\ run'.slot = run.slot
             /\ run'.sent = run.sent
             /\ run'.full_seen
             /\ Len(run'.output) = Len(run.output) + run.channels
             /\ run'.output[Len(run'.output)].sample = Zero]_vars

\* a buffer of two None frames, the first of which filled the slot and the
\* second of which was dropped, the control thread not having received yet
C16_Witness ==
    /\ run.full_seen /\ run.slot = ChannelCap
    /\ run.sent = 1 /\ run.received = 0
    /\ run.cb = "idle" /\ run.nframes >= 2
    /\ Len(run.output) = run.nframes * run.channels
    /\ run.output[1].after_end

\* the run with both threads scheduled: the stream keeps calling write_data
\* while it plays and the callback and the control thread keep running
FairExamples == {"ch2"}

InitRunFair ==
    /\ \E ex \in FairExamples, ch \in 1..MaxChannels :
          run = [frames |-> FramesNew(ex, PipeRate), ended |-> FALSE,
                 stream |-> "built", ctl |-> "play",
                 slot |-> 0, rx_alive |-> TRUE,
                 cb |-> "idle", channels |-> ch, nframes |-> 0, output |-> <<>>,
                 sent |-> 0, received |-> 0, full_seen |-> FALSE]
    /\ env = Idle /\ stepper = Idle /\ pipe = Idle /\ lpf = Idle /\ ks = Idle
    /\ saw = Idle /\ melody = Idle

SpecRunFair ==
    /\ InitRunFair /\ [][NextRun]_vars
    /\ WF_vars(CallbackStart) /\ WF_vars(WriteFrame)
    /\ WF_vars(Play) /\ WF_vars(Recv) /\ WF_vars(Pause) /\ WF_vars(Return)

\* C15: with the callback kept being called, the pipeline returns None after
\* finitely many frames, the notification is then sent, the blocking recv
\* returns and run comes to its end (Recv is the one step of the control
\* thread that waits on the channel).
C15_WaitTerminates ==
    <>(/\ run.ended /\ run.sent >= 1 /\ run.received = 1
       /\ run.ctl = "done")

\* run has returned after one receipt of a notification sent after the end
C15_Witness ==
    /\ run.ctl = "done" /\ run.received = 1 /\ run.ended
    /\ run.sent >= 1 /\ run.stream = "dropped"

(***************************************************************************)
(* ch3-melody: track1.add_amp(track2).mul_amp(env).take(..), every signal  *)
(* of the chain being asked for one frame per output sample.               *)
(***************************************************************************)
\* longest track sequence explored
MaxTrackLen == 2

\* two of TRACK1's frequencies, in 1/100 Hz
TrackNotes == {44000, 49388}

\* rate.hz(track).sine(): the Hz step source over a Track and the Phase of
\* the Sine, Phase { step, next: 0.0 }; nothing is asked of the Track yet
SineNew(track, rate) == [track |-> track, rate |-> rate, next |-> Zero]

\* Sine::next, up to the sine itself: Phase::next_phase returns `next` and
\* advances it by Hz::step, which asks the Track for one frame and divides it
\* by the rate
SineNext(s) ==
    LET t    == TrackNext(s.track)
        step == Frac(t.ret, 100 * s.rate)
    IN  [self   |-> [s EXCEPT !.track = t.self,
                              !.next = Fract(RAdd(s.next, step))],
         phase  |-> s.next,
         hz     |-> t.ret,
         popped |-> t.popped]

\* the chain built by run of ch3-melody for a device of the given rate
\* (step_length is the rate), up to take()
MelodyNew(seq1, seq2, seq, rate, attack_frames, release_frames) ==
    LET made == Env3New(seq, rate, attack_frames, release_frames)
    IN  [sine1 |-> SineNew(TrackNew(seq1, rate).self, rate),
         sine2 |-> SineNew(TrackNew(seq2, rate).self, rate),
         env |-> made.self, take_n |-> rate * Len(seq),
         consumed |-> Values(made.popped)]

InitMelody ==
    /\ \E seq1 \in SeqsOver(TrackNotes, MaxTrackLen),
          seq2 \in SeqsOver(TrackNotes, MaxTrackLen),
          seq \in SeqsOver(BOOLEAN, MaxSeqLen), rate \in 1..MaxStep :
          LET m == MelodyNew(seq1, seq2, seq, rate, 1, 1)
          IN  melody = [sine1 |-> m.sine1, sine2 |-> m.sine2, env |-> m.env,
                        take_n |-> m.take_n, rate |-> rate,
                        len1 |-> Len(seq1), len2 |-> Len(seq2), len |-> Len(seq),
                        samples |-> 0,
                        taken1 |-> 0, taken2 |-> 0, taken |-> Len(m.consumed),
                        popped1 |-> FALSE, popped2 |-> FALSE, popped |-> FALSE,
                        hz1 |-> 0, hz2 |-> 0, was1 |-> 0, was2 |-> 0]
    /\ env = Idle /\ stepper = Idle /\ pipe = Idle /\ run = Idle /\ lpf = Idle
    /\ ks = Idle /\ saw = Idle

\* one frame of take(): AddAmp asks track1's sine then track2's, MulAmp then
\* asks the envelope
MelodySample ==
    /\ ~TakeDone(melody.take_n)
    /\ \E a \in {SineNext(melody.sine1)}, b \in {SineNext(melody.sine2)},
          e \in {Env3Next(melody.env)} :
          melody' = [melody EXCEPT
                       !.sine1 = a.self, !.sine2 = b.self, !.env = e.self,
                       !.take_n = @ - 1, !.samples = @ + 1,
                       !.taken1 = @ + Len(Values(a.popped)),
                       !.taken2 = @ + Len(Values(b.popped)),
                       !.taken = @ + Len(Values(e.popped)),
                       !.popped1 = a.popped # <<>>,
                       !.popped2 = b.popped # <<>>,
                       !.popped = e.popped # <<>>,
                       !.hz1 = a.hz, !.hz2 = b.hz,
                       !.was1 = melody.hz1, !.was2 = melody.hz2]
    /\ UNCHANGED <<env, stepper, pipe, run, lpf, ks, saw>>

NextMelody == MelodySample

SpecMelody == InitMelody /\ [][NextMelody]_vars

\* the values of a sequence of n values consumed once k pops were made
TakenOf(n, k) == IF k <= n THEN k ELSE n

\* C21: in the ch3-melody pipeline the two Tracks and the Env, sharing
\* step_length and advanced once per output sample, consume their i-th
\* sequence value on the same output sample for every i: after every sample
\* the three have the same cur_frame and have consumed the same number of
\* values (as far as each sequence lasts), a sequence is popped by all three
\* or by none, and a track's frequency changes only on the first frame of an
\* envelope step.
C21_ConsumedTogether ==
    LET k == BoundariesIn(melody.samples, melody.rate)
    IN  /\ melody.sine1.track.cur_frame = melody.env.cur_frame
        /\ melody.sine2.track.cur_frame = melody.env.cur_frame
        /\ melody.taken1 = TakenOf(melody.len1, k)
        /\ melody.taken2 = TakenOf(melody.len2, k)
        /\ melody.taken = TakenOf(melody.len, k)
        /\ melody.popped1 = melody.popped /\ melody.popped2 = melody.popped
        /\ melody.popped => melody.env.cur_frame = 1
        /\ (melody.hz1 # melody.was1 \/ melody.hz2 # melody.was2) =>
              (melody.popped /\ melody.env.cur_frame = 1)

\* the sample on which the three consume their second value, both tracks
\* changing frequency on it, in steps longer than one frame
C21_Witness ==
    /\ melody.rate >= 2
    /\ melody.samples = 2 * melody.rate + 1
    /\ melody.taken1 = 2 /\ melody.taken2 = 2 /\ melody.taken = 2
    /\ melody.popped
    /\ melody.hz1 # melody.was1 /\ melody.hz2 # melody.was2
    /\ melody.env.cur_frame = 1

(***************************************************************************)
(* The unsigned subtractions of the envelopes and the range of their       *)
(* values, for positive lengths with release_frames <= total_frames        *)
(* (step_length).                                                          *)
(***************************************************************************)
PositiveLengths ==
    {<<t, a, r>> \in (1..MaxStep) \X (1..MaxAttack) \X (1..MaxStep) : r <= t}

InitEnvsPositive ==
    /\ \E p \in PositiveLengths, k \in 1..MaxSeqLen :
       \E seq \in {[i \in 1..k |-> TRUE], [i \in 1..k |-> i % 2 = 0]} :
          /\ env = [self |-> EnvNew(p[1], p[2], p[3]), ret |-> None,
                    calls |-> 0]
          /\ \/ stepper = Started("ch3", seq, Env3New(seq, p[1], p[2], p[3]))
             \/ stepper = Started("ch5", seq, Env5New(seq, p[1], p[2], p[3]))
             \/ stepper = Started("ch6", seq, Env6New(seq, p[1], p[2], p[3]))
    /\ pipe = Idle /\ run = Idle /\ lpf = Idle /\ ks = Idle /\ saw = Idle
    /\ melody = Idle

SpecEnvsPositive == InitEnvsPositive /\ [][NextEnvs]_vars

\* the usize subtractions <<minuend, subtrahend>> that Env::next of ch2
\* evaluates when called on e, in the order of the code
EnvSubtractions(e) ==
    LET cur == e.cur_frame + 1
    IN  IF EnvEnded(cur, e.total_frames)
        THEN <<>>
        ELSE IF cur > e.total_frames - e.release_frames
             THEN << <<e.total_frames, e.release_frames>>,
                     <<e.total_frames, cur>> >>
             ELSE << <<e.total_frames, e.release_frames>> >>

\* the usize subtractions that the step-sequenced Env::next evaluates when
\* called on e: cur_frame -= step_length at a step boundary, then, the note
\* being on, those of the release test and of the release ramp
StepEnvSubtractions(e) ==
    LET cur1 == e.cur_frame + 1
        wrap == cur1 > e.step_length
        cur  == IF wrap THEN cur1 - e.step_length ELSE cur1
        on   == IF wrap THEN UnwrapOr(Pop(e.seq).val, FALSE) ELSE e.note_on
    IN  (IF wrap THEN << <<cur1, e.step_length>> >> ELSE <<>>)
        \o (IF ~on
            THEN <<>>
            ELSE IF cur > e.step_length - e.release_frames
                 THEN << <<e.step_length, e.release_frames>>,
                         <<e.step_length, cur>> >>
                 ELSE << <<e.step_length, e.release_frames>> >>)

\* no subtraction of the sequence goes below zero
NoUnderflow(subs) == \A i \in 1..Len(subs) : subs[i][1] >= subs[i][2]

\* 0.0 <= v <= 1.0
InUnit(v) == v[1] >= 0 /\ v[1] <= v[2]

\* C22: for every envelope (one-shot or step-sequenced) with positive
\* attack_frames and release_frames and release_frames <= total_frames
\* (step_length), no unsigned subtraction evaluated by next underflows and
\* every value next returns lies in [0, 1].
C22_NoUnderflowUnitRange ==
    [][/\ (env' # env /\ env.self.attack_frames >= 1
             /\ env.self.release_frames >= 1
             /\ env.self.release_frames <= env.self.total_frames) =>
             /\ NoUnderflow(EnvSubtractions(env.self))
             /\ env'.ret # None => InUnit(env'.ret[1])
       /\ (stepper' # stepper /\ stepper.self.attack_frames >= 1
             /\ stepper.self.release_frames >= 1
             /\ stepper.self.release_frames <= stepper.self.step_length) =>
             /\ NoUnderflow(StepEnvSubtractions(stepper.self))
             /\ InUnit(stepper'.ret[1])]_vars

\* both envelopes on a frame of their release ramp, strictly between 0 and
\* 1, the step-sequenced one past its first step boundary
C22_Witness ==
    /\ env.ret # None /\ env.ret[1] \notin {Zero, One}
    /\ env.self.cur_frame > env.self.total_frames - env.self.release_frames
    /\ stepper.calls > stepper.self.step_length
    /\ stepper.self.note_on
    /\ stepper.self.cur_frame >
          stepper.self.step_length - stepper.self.release_frames
    /\ stepper.ret[1] \notin {Zero, One}

=============================================================================
